---- MODULE Spec2Model ----
\* Model of src/http/autoconf.go: the autoconfig (Thunderbird), autodiscover
\* (Microsoft), mobileconfig and mobileconfig-qrcode HTTP handlers.
\*
\* Strings are sequences of tokens (a DNS label, a separator, a literal of the
\* source), so that prefix/suffix stripping, splitting, replacing and
\* concatenation are computed, not assumed.  The empty string is <<>>.
EXTENDS Integers, Sequences, FiniteSets, TLC

VARIABLES
    pc,                 \* position of the request being served
    r,                  \* the *http.Request
    w,                  \* the http.ResponseWriter: status code, headers, body written
    local,              \* the running handler's local variables
    calls,              \* the calls into collaborators made for this request, in order
    metricAutoconf,     \* counter mox_autoconf_request_total{domain=""}
    metricAutodiscover  \* counter mox_autodiscover_request_total{domain=""}

vars == <<pc, r, w, local, calls, metricAutoconf, metricAutodiscover>>

-----------------------------------------------------------------------------
\* Bounds of the model.

\* Requests counted by the two metrics before the model stops accepting more.
MaxRequests == 2
\* TLS mode values 0..MaxTLSMode are drawn; those above TLSModeNone are unknown modes.
MaxTLSMode == 3

-----------------------------------------------------------------------------
\* Program constants.

StatusOK == 200
StatusBadRequest == 400
StatusNotFound == 404
StatusMethodNotAllowed == 405
StatusInternalServerError == 500

\* admin.TLSMode, a uint8, with the values the admin package gives its three
\* modes.  The handlers depend only on the values being distinct.
TLSModeImmediate == 0
TLSModeSTARTTLS == 1
TLSModeNone == 2

TLSModes == 0..MaxTLSMode

-----------------------------------------------------------------------------
\* Strings.

HasPrefix(s, p) == Len(s) >= Len(p) /\ SubSeq(s, 1, Len(p)) = p

HasSuffix(s, x) == Len(s) >= Len(x) /\ SubSeq(s, Len(s) - Len(x) + 1, Len(s)) = x

\* strings.TrimPrefix: s without the leading p, once; s itself when it does not start with p.
TrimPrefix(s, p) == IF HasPrefix(s, p) THEN SubSeq(s, Len(p) + 1, Len(s)) ELSE s

\* strings.TrimSuffix: s without the trailing x, once.
TrimSuffix(s, x) == IF HasSuffix(s, x) THEN SubSeq(s, 1, Len(s) - Len(x)) ELSE s

\* Index of the first occurrence of token t in s, 0 when absent.
Index(s, t) ==
    IF \E i \in 1..Len(s) : s[i] = t
    THEN CHOOSE i \in 1..Len(s) : s[i] = t /\ \A j \in 1..(i - 1) : s[j] # t
    ELSE 0

\* strings.ReplaceAll for a one-token old and a one-token new.
ReplaceAll(s, old, new) == [i \in 1..Len(s) |-> IF s[i] = old THEN new ELSE s[i]]

\* strings.Split(s, sep): never empty, Split("", ",") is [""].
RECURSIVE Split(_, _)
Split(s, sep) ==
    LET i == Index(s, sep)
    IN  IF i = 0 THEN <<s>>
        ELSE <<SubSeq(s, 1, i - 1)>> \o Split(SubSeq(s, i + 1, Len(s)), sep)

\* fmt's %v of a number.
Itoa(n) == ToString(n)

-----------------------------------------------------------------------------
\* dns.ParseDomain and smtp.ParseAddress.

\* The DNS labels of the model.  "EXAMPLE" is an upper-case spelling of
\* "example"; "u-bucher" stands for a label with non-ASCII characters whose
\* A-label is "xn--bucher".
Labels == {"autoconfig", "example", "org", "EXAMPLE", "u-bucher", "xn--bucher", "mail", "smtp"}

ToASCIILabel(t) ==
    CASE t = "EXAMPLE" -> "example"
      [] t = "u-bucher" -> "xn--bucher"
      [] OTHER -> t

ToUnicodeLabel(t) ==
    CASE t = "EXAMPLE" -> "example"
      [] t = "xn--bucher" -> "u-bucher"
      [] OTHER -> t

\* The zero dns.Domain.
NoDomain == [ASCII |-> <<>>, Unicode |-> <<>>]

\* A name is labels separated by single dots: no empty label, no trailing dot,
\* no port.
IsDomainName(s) ==
    /\ Len(s) % 2 = 1
    /\ \A i \in 1..Len(s) : IF i % 2 = 1 THEN s[i] \in Labels ELSE s[i] = "."

\* dns.ParseDomain: the ASCII (A-label, lower-case) form, and the Unicode form
\* when it differs from the ASCII form.
ParseDomain(s) ==
    IF ~IsDomainName(s)
    THEN [err |-> <<"invalid domain">>, domain |-> NoDomain]
    ELSE LET ascii == [i \in 1..Len(s) |-> ToASCIILabel(s[i])]
             unicode == [i \in 1..Len(s) |-> ToUnicodeLabel(s[i])]
         IN  [err |-> <<>>,
              domain |-> [ASCII |-> ascii,
                          Unicode |-> IF unicode = ascii THEN <<>> ELSE unicode]]

\* smtp.ParseAddress: localpart "@" domain.
ParseAddress(s) ==
    LET at == Index(s, "@")
        dom == ParseDomain(SubSeq(s, at + 1, Len(s)))
    IN  IF at <= 1 \/ dom.err # <<>>
        THEN [err |-> <<"invalid address">>, Localpart |-> <<>>, Domain |-> NoDomain]
        ELSE [err |-> <<>>, Localpart |-> SubSeq(s, 1, at - 1), Domain |-> dom.domain]

-----------------------------------------------------------------------------
\* admin.ClientConfigDomain.

IMAPHost == [ASCII |-> <<"mail", ".", "example", ".", "org">>, Unicode |-> <<>>]
SubmissionHost == [ASCII |-> <<"smtp", ".", "example", ".", "org">>, Unicode |-> <<>>]

IMAPPorts == {993, 143}
SubmissionPorts == {465, 587}

NoEndpoint == [Host |-> NoDomain, Port |-> 0, TLSMode |-> 0, EnabledOnHTTPS |-> FALSE]
NoConfig == [IMAP |-> NoEndpoint, Submission |-> NoEndpoint]

Endpoints(host, ports) ==
    [Host : {host}, Port : ports, TLSMode : TLSModes, EnabledOnHTTPS : BOOLEAN]

\* The outcomes of the lookup: the domain is not configured, or its client
\* configuration.
ClientConfigDomain(domain) ==
    {[err |-> <<"domain not present in configuration">>, config |-> NoConfig]}
    \cup {[err |-> <<>>, config |-> [IMAP |-> i, Submission |-> s]] :
            i \in Endpoints(IMAPHost, IMAPPorts),
            s \in Endpoints(SubmissionHost, SubmissionPorts)}

-----------------------------------------------------------------------------
\* http.ResponseWriter.

NoDoc == [kind |-> "none"]

\* A fresh response: no status written, no headers, empty body.
NewResponse ==
    [code |-> 0, contentType |-> <<>>, contentDisposition |-> <<>>, body |-> <<>>]

\* w.Write: the first write sends status 200 when no status was sent.
Write(rw, item) ==
    [rw EXCEPT !.code = IF @ = 0 THEN StatusOK ELSE @, !.body = Append(@, item)]

Text(s) == [kind |-> "text", text |-> s, doc |-> NoDoc]

\* http.Error: plain-text content type, the status code, the message as body.
\* After a status was sent the code is kept and the message is appended.
HttpError(rw, msg, code) ==
    Write([rw EXCEPT !.contentType = <<"text/plain; charset=utf-8">>,
                     !.code = IF @ = 0 THEN code ELSE @],
          Text(msg))

\* http.NotFound.
HttpNotFound(rw) == HttpError(rw, <<"404", " page not found">>, StatusNotFound)

-----------------------------------------------------------------------------
\* Requests.

Methods == {"GET", "POST", "PUT"}

\* r.Host values: with and without the autoconfig label, the label twice, the
\* bare label, an upper-case and a non-ASCII spelling, and a host with a port.
Hosts ==
    {<<"autoconfig", ".", "example", ".", "org">>,
     <<"example", ".", "org">>,
     <<"autoconfig", ".", "autoconfig", ".", "example", ".", "org">>,
     <<"autoconfig">>,
     <<"autoconfig", ".", "EXAMPLE", ".", "org">>,
     <<"autoconfig", ".", "u-bucher", ".", "org">>,
     <<"example", ".", "org", ":", "8443">>}

\* Hosts of requests that carry an address.
AddressHosts ==
    {<<"autoconfig", ".", "example", ".", "org">>, <<"example", ".", "org">>}

\* Non-empty addresses as clients send them; the last two do not parse.
Emails ==
    {<<"user", "@", "example", ".", "org">>,
     <<"user", "@", "EXAMPLE", ".", "org">>,
     <<"user", "@", "autoconfig", ".", "example", ".", "org">>,
     <<"user", "@", "u-bucher", ".", "org">>,
     <<"user">>,
     <<"@", "example", ".", "org">>}

AutoconfPaths ==
    {<<"/mail/config-v1.1.xml">>, <<"/.well-known/autoconfig/mail/config-v1.1.xml">>}

\* Request bodies: not XML at all, XML with another root element, and an
\* Autodiscover element with its EMailAddress (empty when the element is absent).
NoBody == [xml |-> FALSE, root |-> "", EMailAddress |-> <<>>]

Bodies ==
    {NoBody, [xml |-> TRUE, root |-> "Other", EMailAddress |-> <<>>]}
    \cup {[xml |-> TRUE, root |-> "Autodiscover", EMailAddress |-> e] : e \in Emails \cup {<<>>}}

NoRequest ==
    [handler |-> "none", Method |-> "", Host |-> <<>>, Path |-> <<>>, RawQuery |-> <<>>,
     TLS |-> FALSE, emailaddress |-> <<>>, addresses |-> <<>>, name |-> <<>>,
     Body |-> NoBody]

AutoconfRequests ==
    {[NoRequest EXCEPT !.handler = "autoconf", !.Method = "GET", !.Host = h, !.Path = p,
                       !.emailaddress = e] :
        h \in Hosts, p \in AutoconfPaths, e \in {<<>>}}
    \cup {[NoRequest EXCEPT !.handler = "autoconf", !.Method = "GET", !.Host = h, !.Path = p,
                            !.emailaddress = e] :
        h \in AddressHosts, p \in AutoconfPaths, e \in Emails}

AutodiscoverRequests ==
    {[NoRequest EXCEPT !.handler = "autodiscover", !.Method = m,
                       !.Host = <<"autodiscover", ".", "example", ".", "org">>,
                       !.Path = <<"/autodiscover/autodiscover.xml">>, !.Body = b] :
        m \in Methods, b \in Bodies}

\* The addresses parameter: absent, one address, two addresses, an address
\* that does not parse.
AddressLists ==
    {<<>>,
     <<"user", "@", "example", ".", "org">>,
     <<"user", "@", "example", ".", "org", ",", "user", "@", "u-bucher", ".", "org">>,
     <<"user", ",", "user", "@", "example", ".", "org">>}

MobileconfigRequests ==
    {[NoRequest EXCEPT !.handler = "mobileconfig", !.Method = m,
                       !.Host = <<"example", ".", "org">>,
                       !.Path = <<"/mobileconfig">>, !.addresses = a,
                       !.name = <<"User Name">>] :
        m \in Methods, a \in AddressLists}

QRCodePaths ==
    {<<"/mobileconfig", ".qrcode.png">>,
     <<"/mobileconfig">>,
     <<"/mobileconfig", ".qrcode.png", ".qrcode.png">>,
     <<".qrcode.png", "/mobileconfig">>}

QRCodeQueries ==
    {<<>>, <<"addresses=user%40example.org">>, <<"addresses=<3000 bytes>">>}

QRCodeRequests ==
    {[NoRequest EXCEPT !.handler = "qrcode", !.Method = m, !.Host = h, !.Path = p,
                       !.RawQuery = q, !.TLS = t] :
        m \in {"GET", "POST"},
        h \in {<<"example", ".", "org">>, <<"example", ".", "org", ":", "8443">>},
        p \in QRCodePaths, q \in QRCodeQueries, t \in BOOLEAN}

Requests ==
    AutoconfRequests \cup AutodiscoverRequests \cup MobileconfigRequests \cup QRCodeRequests

-----------------------------------------------------------------------------
\* The handlers' local variables.

NoAddress == [Localpart |-> <<>>, Domain |-> NoDomain]

NoLocal ==
    [email |-> <<>>, domain |-> NoDomain, config |-> NoConfig,
     imapTLS |-> <<>>, submissionTLS |-> <<>>,
     req |-> [EmailAddress |-> <<>>], addr |-> NoAddress,
     imapSSL |-> <<>>, imapEncryption |-> <<>>,
     submissionSSL |-> <<>>, submissionEncryption |-> <<>>]

Init ==
    /\ pc = "idle"
    /\ r = NoRequest
    /\ w = NewResponse
    /\ local = NoLocal
    /\ calls = <<>>
    /\ metricAutoconf = 0
    /\ metricAutodiscover = 0

\* The server hands a request to its handler.
Request ==
    /\ pc = "idle"
    /\ \E req \in Requests :
        /\ req.handler \in {"autoconf", "autodiscover"}
              => metricAutoconf + metricAutodiscover < MaxRequests
        /\ r' = req
        /\ pc' = req.handler
    /\ w' = NewResponse
    /\ local' = NoLocal
    /\ calls' = <<>>
    /\ UNCHANGED <<metricAutoconf, metricAutodiscover>>

\* The handler returns: its deferred function counts the request, under the
\* label addrDom, which no handler assigns.
Return ==
    /\ pc = "return"
    /\ metricAutoconf' = IF r.handler = "autoconf" THEN metricAutoconf + 1 ELSE metricAutoconf
    /\ metricAutodiscover' =
        IF r.handler = "autodiscover" THEN metricAutodiscover + 1 ELSE metricAutodiscover
    /\ pc' = "idle"
    /\ r' = NoRequest
    /\ w' = NewResponse
    /\ local' = NoLocal
    /\ calls' = <<>>

-----------------------------------------------------------------------------
\* autoconfHandle.

\* hostDomain with the prefix removed from the ASCII form only.
hostDomainASCIIOnly(domain) ==
    [ASCII |-> TrimPrefix(domain.ASCII, <<"autoconfig", ".">>),
     Unicode |-> domain.Unicode]

\* The domain of a request without address: the parsed host without a leading
\* "autoconfig." in either form.
hostDomain(domain) ==
    [ASCII |-> TrimPrefix(domain.ASCII, <<"autoconfig", ".">>),
     Unicode |-> TrimPrefix(domain.Unicode, <<"autoconfig", ".">>)]

\* socketType with STARTTLS reported as "SSL".
socketTypeSTARTTLSAsSSL(tlsMode) ==
    CASE tlsMode = TLSModeImmediate -> [val |-> <<"SSL">>, err |-> <<>>]
      [] tlsMode = TLSModeSTARTTLS -> [val |-> <<"SSL">>, err |-> <<>>]
      [] tlsMode = TLSModeNone -> [val |-> <<"plain">>, err |-> <<>>]
      [] OTHER -> [val |-> <<>>, err |-> <<"unknown tls mode ", Itoa(tlsMode)>>]

\* The socketType closure.
socketType(tlsMode) ==
    CASE tlsMode = TLSModeImmediate -> [val |-> <<"SSL">>, err |-> <<>>]
      [] tlsMode = TLSModeSTARTTLS -> [val |-> <<"STARTTLS">>, err |-> <<>>]
      [] tlsMode = TLSModeNone -> [val |-> <<"plain">>, err |-> <<>>]
      [] OTHER -> [val |-> <<>>, err |-> <<"unknown tls mode ", Itoa(tlsMode)>>]

\* Lines 66-88: the domain and the identity of the request.
AutoconfNormalize ==
    /\ pc = "autoconf"
    /\ IF r.emailaddress = <<>>
       THEN LET p == ParseDomain(r.Host)
            IN  /\ calls' = Append(calls, "ParseDomain")
                /\ IF p.err # <<>>
                   THEN /\ w' = HttpError(w, <<"400", " - ", "bad request", " - ",
                                               "invalid domain: ">> \o r.Host,
                                          StatusBadRequest)
                        /\ pc' = "return"
                        /\ local' = [local EXCEPT !.email = <<"%EMAILADDRESS%">>]
                   ELSE /\ local' = [local EXCEPT !.email = <<"%EMAILADDRESS%">>,
                                                  !.domain = hostDomain(p.domain)]
                        /\ pc' = "autoconf_lookup"
                        /\ w' = w
       ELSE LET a == ParseAddress(r.emailaddress)
            IN  /\ calls' = Append(calls, "ParseAddress")
                /\ IF a.err # <<>>
                   THEN /\ w' = HttpError(w, <<"400", " - ", "bad request", " - ",
                                               "invalid parameter emailaddress">>,
                                          StatusBadRequest)
                        /\ pc' = "return"
                        /\ local' = [local EXCEPT !.email = r.emailaddress]
                   ELSE /\ local' = [local EXCEPT !.email = r.emailaddress,
                                                  !.domain = a.Domain]
                        /\ pc' = "autoconf_lookup"
                        /\ w' = w
    /\ UNCHANGED <<r, metricAutoconf, metricAutodiscover>>

\* AutoconfLookup without the return after the error response.
AutoconfLookupNoReturn ==
    /\ pc = "autoconf_lookup"
    /\ \E res \in ClientConfigDomain(local.domain) :
        LET config == res.config
            imap == IF res.err = <<>> THEN socketType(config.IMAP.TLSMode)
                    ELSE [val |-> <<>>, err |-> res.err]
            submission == IF imap.err = <<>> THEN socketType(config.Submission.TLSMode)
                          ELSE [val |-> <<>>, err |-> imap.err]
            err == submission.err
        IN  /\ local' = [local EXCEPT !.config = config, !.imapTLS = imap.val,
                                       !.submissionTLS = submission.val]
            /\ IF err # <<>>
               THEN w' = HttpError(w, <<"400", " - ", "bad request", " - ">> \o err,
                                   StatusBadRequest)
               ELSE w' = w
            /\ pc' = "autoconf_respond"
    /\ calls' = Append(calls, "ClientConfigDomain")
    /\ UNCHANGED <<r, metricAutoconf, metricAutodiscover>>

\* Lines 103-114: the configuration of the domain and the socket types of its
\* two endpoints; any error ends the request.
AutoconfLookup ==
    /\ pc = "autoconf_lookup"
    /\ \E res \in ClientConfigDomain(local.domain) :
        LET config == res.config
            imap == IF res.err = <<>> THEN socketType(config.IMAP.TLSMode)
                    ELSE [val |-> <<>>, err |-> res.err]
            submission == IF imap.err = <<>> THEN socketType(config.Submission.TLSMode)
                          ELSE [val |-> <<>>, err |-> imap.err]
            err == submission.err
        IN  /\ local' = [local EXCEPT !.config = config, !.imapTLS = imap.val,
                                       !.submissionTLS = submission.val]
            /\ IF err # <<>>
               THEN /\ w' = HttpError(w, <<"400", " - ", "bad request", " - ">> \o err,
                                      StatusBadRequest)
                    /\ pc' = "return"
               ELSE /\ w' = w
                    /\ pc' = "autoconf_respond"
    /\ calls' = Append(calls, "ClientConfigDomain")
    /\ UNCHANGED <<r, metricAutoconf, metricAutodiscover>>

\* An incomingServer or outgoingServer.
Server(type, hostname, port, socket, username) ==
    [Type |-> type, Hostname |-> hostname, Port |-> port, SocketType |-> socket,
     Username |-> username, Authentication |-> <<"password-encrypted">>]

\* Lines 127-147: the incoming servers, the second one for IMAP on the HTTPS port.
IncomingServers(config, imapTLS, email) ==
    <<Server(<<"imap">>, config.IMAP.Host.ASCII, config.IMAP.Port, imapTLS, email)>>
    \o IF config.IMAP.EnabledOnHTTPS
       THEN <<Server(<<"imap">>, config.IMAP.Host.ASCII, 443,
                     socketType(TLSModeImmediate).val, email)>>
       ELSE <<>>

\* OutgoingServers deciding on the IMAP endpoint's flag.
OutgoingServersIMAPFlag(config, submissionTLS, email) ==
    <<Server(<<"smtp">>, config.Submission.Host.ASCII, config.Submission.Port,
             submissionTLS, email)>>
    \o IF config.IMAP.EnabledOnHTTPS
       THEN <<Server(<<"smtp">>, config.Submission.Host.ASCII, 443,
                     socketType(TLSModeImmediate).val, email)>>
       ELSE <<>>

\* Lines 149-169: the outgoing servers, the second one for submission on the HTTPS port.
OutgoingServers(config, submissionTLS, email) ==
    <<Server(<<"smtp">>, config.Submission.Host.ASCII, config.Submission.Port,
             submissionTLS, email)>>
    \o IF config.Submission.EnabledOnHTTPS
       THEN <<Server(<<"smtp">>, config.Submission.Host.ASCII, 443,
                     socketType(TLSModeImmediate).val, email)>>
       ELSE <<>>

\* AutoconfigResponse with the display name set to the domain, like the other
\* provider fields.
AutoconfigResponseDomainName(domain, email, config, imapTLS, submissionTLS) ==
    [Version |-> <<"1.1">>,
     EmailProvider |->
        [ID |-> domain.ASCII,
         Domain |-> domain.ASCII,
         DisplayName |-> domain.ASCII,
         DisplayShortName |-> domain.ASCII,
         IncomingServers |-> IncomingServers(config, imapTLS, email),
         OutgoingServers |-> OutgoingServers(config, submissionTLS, email)],
     ClientConfigUpdate |->
        [URL |-> <<"https://autoconfig.">> \o domain.ASCII \o <<"/mail/config-v1.1.xml">>]]

\* Lines 117-172: the autoconfigResponse.
AutoconfigResponse(domain, email, config, imapTLS, submissionTLS) ==
    [Version |-> <<"1.1">>,
     EmailProvider |->
        [ID |-> domain.ASCII,
         Domain |-> domain.ASCII,
         DisplayName |-> email,
         DisplayShortName |-> domain.ASCII,
         IncomingServers |-> IncomingServers(config, imapTLS, email),
         OutgoingServers |-> OutgoingServers(config, submissionTLS, email)],
     ClientConfigUpdate |->
        [URL |-> <<"https://autoconfig.">> \o domain.ASCII \o <<"/mail/config-v1.1.xml">>]]

XMLHeader == [kind |-> "xmlheader", text |-> <<"<?xml version=\"1.0\" encoding=\"UTF-8\"?>\n">>,
              doc |-> NoDoc]

\* The document as the XML encoder writes it.
Encode(kind, resp) == [kind |-> kind, text |-> <<>>, doc |-> resp]

\* Lines 117-179: the document is built and written.
AutoconfRespond ==
    /\ pc = "autoconf_respond"
    /\ LET resp == AutoconfigResponse(local.domain, local.email, local.config,
                                      local.imapTLS, local.submissionTLS)
       IN  w' = Write(Write([w EXCEPT !.contentType = <<"application/xml; charset=utf-8">>],
                            XMLHeader),
                      Encode("autoconfig", resp))
    /\ calls' = Append(calls, "Encode")
    /\ pc' = "return"
    /\ UNCHANGED <<r, local, metricAutoconf, metricAutodiscover>>

-----------------------------------------------------------------------------
\* autodiscoverHandle.

\* autodiscoverMethod rejecting GET only.
autodiscoverMethodNotGET(method) == method # "GET"

\* Line 200: the method the handler serves.
autodiscoverMethod(method) == method = "POST"

\* Lines 205-206, 338-344: the XML decoder on the request body, into an
\* autodiscoverRequest.
Decode(body) ==
    CASE ~body.xml -> [err |-> <<"EOF">>, EmailAddress |-> <<>>]
      [] body.root # "Autodiscover" ->
            [err |-> <<"expected element type <Autodiscover> but have <", body.root, ">">>,
             EmailAddress |-> <<>>]
      [] OTHER -> [err |-> <<>>, EmailAddress |-> body.EMailAddress]

\* tlsmode with unknown modes reported like None, without error.
tlsmodeDefaultOff(tlsMode) ==
    CASE tlsMode = TLSModeImmediate -> [ssl |-> <<"on">>, encryption |-> <<"TLS">>, err |-> <<>>]
      [] tlsMode = TLSModeSTARTTLS -> [ssl |-> <<"on">>, encryption |-> <<>>, err |-> <<>>]
      [] OTHER -> [ssl |-> <<"off">>, encryption |-> <<>>, err |-> <<>>]

\* The tlsmode closure: the "ssl" and "encryption" fields.
tlsmode(tlsMode) ==
    CASE tlsMode = TLSModeImmediate -> [ssl |-> <<"on">>, encryption |-> <<"TLS">>, err |-> <<>>]
      [] tlsMode = TLSModeSTARTTLS -> [ssl |-> <<"on">>, encryption |-> <<>>, err |-> <<>>]
      [] tlsMode = TLSModeNone -> [ssl |-> <<"off">>, encryption |-> <<>>, err |-> <<>>]
      [] OTHER -> [ssl |-> <<>>, encryption |-> <<>>,
                   err |-> <<"unknown tls mode ", Itoa(tlsMode)>>]

\* Lines 200-203: only POST is served.
AutodiscoverMethod ==
    /\ pc = "autodiscover"
    /\ IF ~autodiscoverMethod(r.Method)
       THEN /\ w' = HttpError(w, <<"405", " - ", "method not allowed", " - ", "post required">>,
                              StatusMethodNotAllowed)
            /\ pc' = "return"
       ELSE /\ w' = w
            /\ pc' = "autodiscover_decode"
    /\ UNCHANGED <<r, local, calls, metricAutoconf, metricAutodiscover>>

\* The status code sent with the message of a body that does not decode.
decodeErrorStatus == StatusMethodNotAllowed

\* Lines 205-209: the body is decoded.
AutodiscoverDecode ==
    /\ pc = "autodiscover_decode"
    /\ LET d == Decode(r.Body)
       IN  IF d.err # <<>>
           THEN /\ w' = HttpError(w, <<"400", " - ", "bad request", " - ",
                                       "parsing autodiscover request: ">> \o d.err,
                                  decodeErrorStatus)
                /\ pc' = "return"
                /\ local' = local
           ELSE /\ local' = [local EXCEPT !.req = [EmailAddress |-> d.EmailAddress]]
                /\ pc' = "autodiscover_parse"
                /\ w' = w
    /\ calls' = Append(calls, "Decode")
    /\ UNCHANGED <<r, metricAutoconf, metricAutodiscover>>

\* Lines 213-217: the address of the request is parsed.
AutodiscoverParse ==
    /\ pc = "autodiscover_parse"
    /\ LET a == ParseAddress(local.req.EmailAddress)
       IN  IF a.err # <<>>
           THEN /\ w' = HttpError(w, <<"400", " - ", "bad request", " - ",
                                       "invalid parameter emailaddress">>,
                                  StatusBadRequest)
                /\ pc' = "return"
                /\ local' = local
           ELSE /\ local' = [local EXCEPT !.addr = [Localpart |-> a.Localpart,
                                                    Domain |-> a.Domain]]
                /\ pc' = "autodiscover_lookup"
                /\ w' = w
    /\ calls' = Append(calls, "ParseAddress")
    /\ UNCHANGED <<r, metricAutoconf, metricAutodiscover>>

\* Lines 233-245: the configuration of the address's domain and the ssl and
\* encryption values of its two endpoints; any error ends the request.
AutodiscoverLookup ==
    /\ pc = "autodiscover_lookup"
    /\ \E res \in ClientConfigDomain(local.addr.Domain) :
        LET config == res.config
            imap == IF res.err = <<>> THEN tlsmode(config.IMAP.TLSMode)
                    ELSE [ssl |-> <<>>, encryption |-> <<>>, err |-> res.err]
            submission == IF imap.err = <<>> THEN tlsmode(config.Submission.TLSMode)
                          ELSE [ssl |-> <<>>, encryption |-> <<>>, err |-> imap.err]
            err == submission.err
        IN  /\ local' = [local EXCEPT !.config = config,
                                       !.imapSSL = imap.ssl,
                                       !.imapEncryption = imap.encryption,
                                       !.submissionSSL = submission.ssl,
                                       !.submissionEncryption = submission.encryption]
            /\ IF err # <<>>
               THEN /\ w' = HttpError(w, <<"400", " - ", "bad request", " - ">> \o err,
                                      StatusBadRequest)
                    /\ pc' = "return"
               ELSE /\ w' = w
                    /\ pc' = "autodiscover_respond"
    /\ calls' = Append(calls, "ClientConfigDomain")
    /\ UNCHANGED <<r, metricAutoconf, metricAutodiscover>>

\* An autodiscoverProtocol.
Protocol(type, server, port, loginName, ssl, encryption) ==
    [Type |-> type, Server |-> server, Port |-> port, DirectoryPort |-> 0,
     ReferralPort |-> 0, LoginName |-> loginName, SSL |-> ssl, Encryption |-> encryption,
     SPA |-> <<"off">>, AuthRequired |-> <<"on">>]

\* AutodiscoverResponse with a further IMAP entry on the HTTPS port, as the
\* autoconfig document has.
AutodiscoverResponseAlternate(req, config, imapSSL, imapEncryption, submissionSSL, submissionEncryption) ==
    [XMLName |->
        [Local |-> <<"Autodiscover">>,
         Space |-> <<"http://schemas.microsoft.com/exchange/autodiscover/responseschema/2006">>],
     Response |->
        [XMLName |->
            [Local |-> <<"Response">>,
             Space |-> <<"http://schemas.microsoft.com/exchange/autodiscover/outlook/responseschema/2006a">>],
         Account |->
            [AccountType |-> <<"email">>,
             Action |-> <<"settings">>,
             Protocol |->
                <<Protocol(<<"IMAP">>, config.IMAP.Host.ASCII, config.IMAP.Port,
                           req.EmailAddress, imapSSL, imapEncryption),
                  Protocol(<<"SMTP">>, config.Submission.Host.ASCII, config.Submission.Port,
                           req.EmailAddress, submissionSSL, submissionEncryption)>>
                \o IF config.IMAP.EnabledOnHTTPS
                   THEN <<Protocol(<<"IMAP">>, config.IMAP.Host.ASCII, 443,
                                   req.EmailAddress, <<"on">>, <<"TLS">>)>>
                   ELSE <<>>]]]

\* Lines 260-290: the autodiscoverResponse.
AutodiscoverResponse(req, config, imapSSL, imapEncryption, submissionSSL, submissionEncryption) ==
    [XMLName |->
        [Local |-> <<"Autodiscover">>,
         Space |-> <<"http://schemas.microsoft.com/exchange/autodiscover/responseschema/2006">>],
     Response |->
        [XMLName |->
            [Local |-> <<"Response">>,
             Space |-> <<"http://schemas.microsoft.com/exchange/autodiscover/outlook/responseschema/2006a">>],
         Account |->
            [AccountType |-> <<"email">>,
             Action |-> <<"settings">>,
             Protocol |->
                <<Protocol(<<"IMAP">>, config.IMAP.Host.ASCII, config.IMAP.Port,
                           req.EmailAddress, imapSSL, imapEncryption),
                  Protocol(<<"SMTP">>, config.Submission.Host.ASCII, config.Submission.Port,
                           req.EmailAddress, submissionSSL, submissionEncryption)>>]]]

\* Lines 256-295: the document is built and written.
AutodiscoverRespond ==
    /\ pc = "autodiscover_respond"
    /\ LET resp == AutodiscoverResponse(local.req, local.config, local.imapSSL,
                                        local.imapEncryption, local.submissionSSL,
                                        local.submissionEncryption)
       IN  w' = Write(Write([w EXCEPT !.contentType = <<"application/xml; charset=utf-8">>],
                            XMLHeader),
                      Encode("autodiscover", resp))
    /\ calls' = Append(calls, "Encode")
    /\ pc' = "return"
    /\ UNCHANGED <<r, local, metricAutoconf, metricAutodiscover>>

-----------------------------------------------------------------------------
\* mobileconfigHandle.

\* MobileConfig: the profile for the addresses, or an error when an address
\* does not parse or its domain has no configuration.
MobileConfig(l, fullName) ==
    IF \E i \in 1..Len(l) : ParseAddress(l[i]).err # <<>>
    THEN {[err |-> <<"parsing address">>, buf |-> NoDoc]}
    ELSE {[err |-> <<"domain not present in configuration">>, buf |-> NoDoc],
          [err |-> <<>>, buf |-> [kind |-> "profile", addresses |-> l, name |-> fullName]]}

\* mobileconfigFilename without the replacement of "@".
mobileconfigFilenameKeepAt(l) ==
    <<"email-account-">> \o ReplaceAll(l[1], ".", "-") \o <<".mobileconfig">>

\* Lines 398-401: the file name of the profile.
mobileconfigFilename(l) ==
    <<"email-account-">>
    \o ReplaceAll(ReplaceAll(l[1], ".", "-"), "@", "-at-")
    \o <<".mobileconfig">>

\* Lines 375-405.
MobileconfigHandle ==
    /\ pc = "mobileconfig"
    /\ IF r.Method # "GET"
       THEN /\ w' = HttpError(w, <<"405", " - ", "method not allowed", " - ", "get required">>,
                              StatusMethodNotAllowed)
            /\ calls' = calls
       ELSE LET addresses == r.addresses
                fullName == r.name
                l == Split(addresses, ",")
                read == calls \o <<"FormValue", "FormValue">>
            IN  IF addresses = <<>>
                THEN /\ w' = HttpError(w, <<"400", " - ", "bad request", " - ",
                                            "missing/empty field addresses">>,
                                       StatusBadRequest)
                     /\ calls' = read
                ELSE \E res \in MobileConfig(l, fullName) :
                        /\ calls' = Append(read, "MobileConfig")
                        /\ IF res.err # <<>>
                           THEN w' = HttpError(w, <<"400", " - ", "bad request", " - ">>
                                                  \o res.err,
                                               StatusBadRequest)
                           ELSE w' = Write([w EXCEPT !.contentDisposition =
                                                <<"attachment; filename=\"">>
                                                \o mobileconfigFilename(l) \o <<"\"">>],
                                           [kind |-> "bytes", text |-> <<>>, doc |-> res.buf])
    /\ pc' = "return"
    /\ UNCHANGED <<r, local, metricAutoconf, metricAutodiscover>>

-----------------------------------------------------------------------------
\* mobileconfigQRCodeHandle.

\* url.URL.String for a URL with scheme, host, path and query.
URLString(u) ==
    u.Scheme \o <<"://">> \o u.Host \o u.Path
    \o IF u.RawQuery # <<>> THEN <<"?">> \o u.RawQuery ELSE <<>>

\* The token of a query too long for a code at level L.
TooLong == "addresses=<3000 bytes>"

\* qr.Encode at level L: fails when the text does not fit.
qrEncode(text) ==
    IF \E i \in 1..Len(text) : text[i] = TooLong
    THEN [err |-> <<"text too long to encode as QR">>, code |-> NoDoc]
    ELSE [err |-> <<>>, code |-> [kind |-> "qrcode", text |-> text]]

\* qrcodeURL with the scheme "https" whatever the connection.
qrcodeURLAlwaysHTTPS(req) ==
    [Scheme |-> <<"https">>,
     Host |-> req.Host,
     Path |-> TrimSuffix(req.Path, <<".qrcode.png">>),
     RawQuery |-> req.RawQuery]

\* Lines 421-429: the URL the code holds.
qrcodeURL(req) ==
    [Scheme |-> IF ~req.TLS THEN <<"http">> ELSE <<"https">>,
     Host |-> req.Host,
     Path |-> TrimSuffix(req.Path, <<".qrcode.png">>),
     RawQuery |-> req.RawQuery]

\* Lines 409-440.
MobileconfigQRCodeHandle ==
    /\ pc = "qrcode"
    /\ IF r.Method # "GET"
       THEN /\ w' = HttpError(w, <<"405", " - ", "method not allowed", " - ", "get required">>,
                              StatusMethodNotAllowed)
            /\ calls' = calls
       ELSE IF ~HasSuffix(r.Path, <<".qrcode.png">>)
       THEN /\ w' = HttpNotFound(w)
            /\ calls' = calls
       ELSE LET enc == qrEncode(URLString(qrcodeURL(r)))
            IN  /\ calls' = Append(calls, "qr.Encode")
                /\ IF enc.err # <<>>
                   THEN w' = HttpError(w, <<"500", " - ", "internal server error", " - ",
                                            "generating qr-code: ">> \o enc.err,
                                       StatusInternalServerError)
                   ELSE w' = Write([w EXCEPT !.contentType = <<"image/png">>],
                                   [kind |-> "png", text |-> <<>>, doc |-> enc.code])
    /\ pc' = "return"
    /\ UNCHANGED <<r, local, metricAutoconf, metricAutodiscover>>

-----------------------------------------------------------------------------

Next ==
    \/ Request
    \/ Return
    \/ AutoconfNormalize
    \/ AutoconfLookup
    \/ AutoconfRespond
    \/ AutodiscoverMethod
    \/ AutodiscoverDecode
    \/ AutodiscoverParse
    \/ AutodiscoverLookup
    \/ AutodiscoverRespond
    \/ MobileconfigHandle
    \/ MobileconfigQRCodeHandle

Spec == Init /\ [][Next]_vars

-----------------------------------------------------------------------------
\* What a request wrote.

\* The handler of the request has returned.
Returned == pc = "return"

\* An XML document of the given kind is in the body.
Written(kind) == \E i \in 1..Len(w.body) : w.body[i].kind = kind

\* That document.
Document(kind) == w.body[CHOOSE i \in 1..Len(w.body) : w.body[i].kind = kind].doc

\* The response is one error message and nothing else.
ErrorOnly ==
    /\ w.code >= 400
    /\ Len(w.body) = 1
    /\ w.body[1].kind = "text"

\* The configuration lookup was made and found the domain.
ConfigFound ==
    /\ \E i \in 1..Len(calls) : calls[i] = "ClientConfigDomain"
    /\ local.config # NoConfig

-----------------------------------------------------------------------------
\* C1: socketType maps Immediate, STARTTLS, None to "SSL", "STARTTLS", "plain"
\* and tlsmode maps them to ("on","TLS"), ("on",""), ("off",""); for any other
\* mode the mapper yields an error and no value; and the primary IMAP and
\* submission entries of an emitted document carry the value mapped from that
\* endpoint's own mode.
C1_TLSModeMapping ==
    LET socket == (TLSModeImmediate :> <<"SSL">>) @@ (TLSModeSTARTTLS :> <<"STARTTLS">>)
                  @@ (TLSModeNone :> <<"plain">>)
        ssl == (TLSModeImmediate :> <<"on">>) @@ (TLSModeSTARTTLS :> <<"on">>)
               @@ (TLSModeNone :> <<"off">>)
        encryption == (TLSModeImmediate :> <<"TLS">>) @@ (TLSModeSTARTTLS :> <<>>)
                      @@ (TLSModeNone :> <<>>)
        Known(m) == m \in {TLSModeImmediate, TLSModeSTARTTLS, TLSModeNone}
        i == local.config.IMAP.TLSMode
        s == local.config.Submission.TLSMode
    IN  /\ (r.handler = "autoconf" /\ ConfigFound) =>
            /\ Known(i) => local.imapTLS = socket[i]
            /\ (Known(i) /\ Known(s)) => local.submissionTLS = socket[s]
            /\ ~(Known(i) /\ Known(s)) =>
                    /\ ~Known(i) => local.imapTLS = <<>>
                    /\ local.submissionTLS = <<>>
                    /\ ErrorOnly
            /\ Written("autoconfig") =>
                    /\ Document("autoconfig").EmailProvider.IncomingServers[1].SocketType
                            = socket[i]
                    /\ Document("autoconfig").EmailProvider.OutgoingServers[1].SocketType
                            = socket[s]
        /\ (r.handler = "autodiscover" /\ ConfigFound) =>
            /\ Known(i) => /\ local.imapSSL = ssl[i]
                           /\ local.imapEncryption = encryption[i]
            /\ (Known(i) /\ Known(s)) => /\ local.submissionSSL = ssl[s]
                                         /\ local.submissionEncryption = encryption[s]
            /\ ~(Known(i) /\ Known(s)) =>
                    /\ ~Known(i) => (local.imapSSL = <<>> /\ local.imapEncryption = <<>>)
                    /\ local.submissionSSL = <<>>
                    /\ local.submissionEncryption = <<>>
                    /\ ErrorOnly
            /\ Written("autodiscover") =>
                LET protocol == Document("autodiscover").Response.Account.Protocol
                IN  /\ protocol[1].SSL = ssl[i]
                    /\ protocol[1].Encryption = encryption[i]
                    /\ protocol[2].SSL = ssl[s]
                    /\ protocol[2].Encryption = encryption[s]

\* An autodiscover document for IMAP with STARTTLS and submission without TLS.
C1_Witness ==
    /\ Written("autodiscover")
    /\ local.config.IMAP.TLSMode = TLSModeSTARTTLS
    /\ local.config.Submission.TLSMode = TLSModeNone

-----------------------------------------------------------------------------
\* C2: in autoconfHandle, without an address the domain is the parsed host
\* with one leading "autoconfig." removed from its ASCII and Unicode forms and
\* the identity is "%EMAILADDRESS%"; with an address that parses the domain is
\* the address's domain and the identity the literal address; a host or an
\* address that does not parse ends the request with status 400 before any
\* configuration lookup.
C2_AutoconfNormalized ==
    LET Strip(d) == IF Len(d) >= 2 /\ d[1] = "autoconfig" /\ d[2] = "."
                    THEN Tail(Tail(d)) ELSE d
        host == ParseDomain(r.Host)
        addr == ParseAddress(r.emailaddress)
        Rejected == /\ Returned
                    /\ w.code = StatusBadRequest
                    /\ ErrorOnly
                    /\ \A i \in 1..Len(calls) : calls[i] # "ClientConfigDomain"
    IN  (r.handler = "autoconf" /\ pc # "autoconf") =>
            IF r.emailaddress = <<>>
            THEN /\ local.email = <<"%EMAILADDRESS%">>
                 /\ IF host.err # <<>>
                    THEN Rejected
                    ELSE /\ local.domain.ASCII = Strip(host.domain.ASCII)
                         /\ local.domain.Unicode = Strip(host.domain.Unicode)
            ELSE /\ local.email = r.emailaddress
                 /\ IF addr.err # <<>>
                    THEN Rejected
                    ELSE local.domain = addr.Domain

\* A non-ASCII host was normalized: the label is gone from both forms.
C2_Witness ==
    /\ r.handler = "autoconf"
    /\ pc = "autoconf_lookup"
    /\ r.emailaddress = <<>>
    /\ r.Host = <<"autoconfig", ".", "u-bucher", ".", "org">>
    /\ local.domain = [ASCII |-> <<"xn--bucher", ".", "org">>,
                       Unicode |-> <<"u-bucher", ".", "org">>]

-----------------------------------------------------------------------------
\* C3: in every autoconfig document each of the two server lists has two
\* entries when its service's EnabledOnHTTPS is set and one when not; the first
\* is the primary endpoint with its port and mapped TLS mode, the second has
\* the same host, port 443 and socketType "SSL" whatever the primary's port and
\* mode.
C3_AlternatePortEntries ==
    Written("autoconfig") =>
        LET incoming == Document("autoconfig").EmailProvider.IncomingServers
            outgoing == Document("autoconfig").EmailProvider.OutgoingServers
            Entries(l, type, endpoint, socket) ==
                /\ Len(l) = IF endpoint.EnabledOnHTTPS THEN 2 ELSE 1
                /\ l[1].Type = type
                /\ l[1].Hostname = endpoint.Host.ASCII
                /\ l[1].Port = endpoint.Port
                /\ l[1].SocketType = socket
                /\ endpoint.EnabledOnHTTPS =>
                        /\ l[2].Type = type
                        /\ l[2].Hostname = endpoint.Host.ASCII
                        /\ l[2].Port = 443
                        /\ l[2].SocketType = <<"SSL">>
        IN  /\ Entries(incoming, <<"imap">>, local.config.IMAP, local.imapTLS)
            /\ Entries(outgoing, <<"smtp">>, local.config.Submission, local.submissionTLS)

\* A document with the alternate entry for IMAP served without TLS, and none
\* for submission.
C3_Witness ==
    /\ Written("autoconfig")
    /\ local.config.IMAP.EnabledOnHTTPS
    /\ local.config.IMAP.TLSMode = TLSModeNone
    /\ ~local.config.Submission.EnabledOnHTTPS
    /\ Len(Document("autoconfig").EmailProvider.IncomingServers) = 2
    /\ Len(Document("autoconfig").EmailProvider.OutgoingServers) = 1

-----------------------------------------------------------------------------
\* C4: an autodiscover request whose method is not POST is answered with
\* status 405, and at no point of it is the body decoded, the address parsed,
\* the configuration looked up or a document written.
C4_NonPostRejected ==
    (r.handler = "autodiscover" /\ r.Method # "POST") =>
        /\ pc \in {"autodiscover", "return"}
        /\ calls = <<>>
        /\ local = NoLocal
        /\ ~Written("autodiscover")
        /\ Returned => (w.code = StatusMethodNotAllowed /\ ErrorOnly)

\* A PUT request was answered.
C4_Witness ==
    /\ r.handler = "autodiscover"
    /\ r.Method = "PUT"
    /\ r.Body.root = "Autodiscover"
    /\ Returned
    /\ w.code = StatusMethodNotAllowed

-----------------------------------------------------------------------------
\* C5: an autodiscover POST whose body does not decode, or whose address does
\* not parse, is answered with status 400 and no document is written.
C5_BadRequestStatus ==
    (/\ r.handler = "autodiscover"
     /\ r.Method = "POST"
     /\ Returned
     /\ \/ Decode(r.Body).err # <<>>
        \/ ParseAddress(Decode(r.Body).EmailAddress).err # <<>>) =>
        /\ w.code = StatusBadRequest
        /\ ErrorOnly
        /\ ~Written("autodiscover")

-----------------------------------------------------------------------------
\* C6: the body of every error response of the four handlers is
\* "<status> - <category> - <message>" in plain text, and the status at its
\* start is the status code of the response.
C6_ErrorBodyMatchesStatus ==
    (Returned /\ w.code >= 400) =>
        /\ Len(w.body) = 1
        /\ w.body[1].kind = "text"
        /\ w.contentType = <<"text/plain; charset=utf-8">>
        /\ Len(w.body[1].text) >= 5
        /\ w.body[1].text[2] = " - "
        /\ w.body[1].text[4] = " - "
        /\ w.body[1].text[1] = Itoa(w.code)

-----------------------------------------------------------------------------
\* C7: in autoconfHandle and autodiscoverHandle a failed configuration lookup
\* ends the request with status 400 and the lookup's error message; and every
\* request ends either with an error response and no document bytes, or with
\* one complete document naming the IMAP and the submission service; never an
\* error after document bytes, never a document naming one service only.
C7_AllOrNothing ==
    LET kind == IF r.handler = "autoconf" THEN "autoconfig" ELSE "autodiscover"
        BothServices(doc) ==
            IF kind = "autoconfig"
            THEN /\ Len(doc.EmailProvider.IncomingServers) >= 1
                 /\ Len(doc.EmailProvider.OutgoingServers) >= 1
                 /\ \A i \in 1..Len(doc.EmailProvider.IncomingServers) :
                        doc.EmailProvider.IncomingServers[i].Type = <<"imap">>
                 /\ \A i \in 1..Len(doc.EmailProvider.OutgoingServers) :
                        doc.EmailProvider.OutgoingServers[i].Type = <<"smtp">>
            ELSE {doc.Response.Account.Protocol[i].Type :
                    i \in 1..Len(doc.Response.Account.Protocol)} = {<<"IMAP">>, <<"SMTP">>}
        LookupFailed ==
            /\ \E i \in 1..Len(calls) : calls[i] = "ClientConfigDomain"
            /\ local.config = NoConfig
    IN  r.handler \in {"autoconf", "autodiscover"} =>
            /\ LookupFailed =>
                    /\ Returned
                    /\ w.code = StatusBadRequest
                    /\ w.body = <<Text(<<"400", " - ", "bad request", " - ",
                                         "domain not present in configuration">>)>>
            /\ \A i \in 1..Len(w.body) : \A j \in (i + 1)..Len(w.body) :
                    ~(w.body[i].kind # "text" /\ w.body[j].kind = "text")
            /\ Returned =>
                    \/ ErrorOnly
                    \/ /\ w.code = StatusOK
                       /\ Len(w.body) = 2
                       /\ w.body[1] = XMLHeader
                       /\ w.body[2].kind = kind
                       /\ BothServices(w.body[2].doc)
            /\ ~Returned => w.body = <<>>

\* A request whose lookup failed was answered.
C7_Witness ==
    /\ r.handler = "autodiscover"
    /\ Returned
    /\ calls = <<"Decode", "ParseAddress", "ClientConfigDomain">>
    /\ local.config = NoConfig
    /\ w.code = StatusBadRequest

-----------------------------------------------------------------------------
\* C8, as stated: a configuration with a TLS mode outside Immediate, STARTTLS,
\* None for either endpoint fails the autoconfig or autodiscover request with
\* status 500 and no document.
C8_UnknownModeStatus500 ==
    (/\ r.handler \in {"autoconf", "autodiscover"}
     /\ ConfigFound
     /\ \/ local.config.IMAP.TLSMode > TLSModeNone
        \/ local.config.Submission.TLSMode > TLSModeNone) =>
        /\ Returned
        /\ w.code = StatusInternalServerError
        /\ ErrorOnly

\* C8, amended: such a configuration fails the request with status 400, the
\* message naming the first unknown mode, and no document.
C8_UnknownModeStatus400 ==
    (/\ r.handler \in {"autoconf", "autodiscover"}
     /\ ConfigFound
     /\ \/ local.config.IMAP.TLSMode > TLSModeNone
        \/ local.config.Submission.TLSMode > TLSModeNone) =>
        LET mode == IF local.config.IMAP.TLSMode > TLSModeNone
                    THEN local.config.IMAP.TLSMode
                    ELSE local.config.Submission.TLSMode
        IN  /\ Returned
            /\ w.code = StatusBadRequest
            /\ w.body = <<Text(<<"400", " - ", "bad request", " - ",
                                 "unknown tls mode ", Itoa(mode)>>)>>

\* An autodiscover request for a domain whose submission mode is unknown.
C8_Witness ==
    /\ r.handler = "autodiscover"
    /\ ConfigFound
    /\ local.config.IMAP.TLSMode = TLSModeImmediate
    /\ local.config.Submission.TLSMode > TLSModeNone
    /\ Returned

-----------------------------------------------------------------------------
\* C9: every autodiscover document has exactly two Protocol entries, IMAP then
\* SMTP, with the host and port of the IMAP and the submission endpoint, none
\* for port 443 whatever the EnabledOnHTTPS flags; each has LoginName equal to
\* the address as it was in the request body, SPA "off" and AuthRequired "on".
C9_AutodiscoverProtocols ==
    Written("autodiscover") =>
        LET protocol == Document("autodiscover").Response.Account.Protocol
        IN  /\ Len(protocol) = 2
            /\ protocol[1].Type = <<"IMAP">>
            /\ protocol[1].Server = local.config.IMAP.Host.ASCII
            /\ protocol[1].Port = local.config.IMAP.Port
            /\ protocol[2].Type = <<"SMTP">>
            /\ protocol[2].Server = local.config.Submission.Host.ASCII
            /\ protocol[2].Port = local.config.Submission.Port
            /\ \A i \in 1..Len(protocol) :
                    /\ protocol[i].LoginName = r.Body.EMailAddress
                    /\ protocol[i].SPA = <<"off">>
                    /\ protocol[i].AuthRequired = <<"on">>

\* A document for a domain with both services on the HTTPS port, requested
\* with an address whose domain is not in canonical spelling.
C9_Witness ==
    /\ Written("autodiscover")
    /\ local.config.IMAP.EnabledOnHTTPS
    /\ local.config.Submission.EnabledOnHTTPS
    /\ r.Body.EMailAddress = <<"user", "@", "EXAMPLE", ".", "org">>
    /\ local.addr.Domain.ASCII = <<"example", ".", "org">>

-----------------------------------------------------------------------------
\* C10: in every autoconfig document, for both input forms and any path:
\* version is "1.1"; id, domain and displayShortName are the normalized
\* domain's ASCII form; displayName and every username are the identity; every
\* authentication is "password-encrypted"; clientConfigUpdate.url is
\* "https://autoconfig." + that ASCII form + "/mail/config-v1.1.xml", the same
\* for host autoconfig.example.org and host example.org.
C10_AutoconfigIdentity ==
    Written("autoconfig") =>
        LET doc == Document("autoconfig")
            servers == doc.EmailProvider.IncomingServers \o doc.EmailProvider.OutgoingServers
            ascii == IF r.emailaddress = <<>>
                     THEN TrimPrefix(ParseDomain(r.Host).domain.ASCII, <<"autoconfig", ".">>)
                     ELSE ParseAddress(r.emailaddress).Domain.ASCII
            identity == IF r.emailaddress = <<>> THEN <<"%EMAILADDRESS%">>
                        ELSE r.emailaddress
        IN  /\ doc.Version = <<"1.1">>
            /\ doc.EmailProvider.ID = ascii
            /\ doc.EmailProvider.Domain = ascii
            /\ doc.EmailProvider.DisplayShortName = ascii
            /\ doc.EmailProvider.DisplayName = identity
            /\ \A i \in 1..Len(servers) :
                    /\ servers[i].Username = identity
                    /\ servers[i].Authentication = <<"password-encrypted">>
            /\ doc.ClientConfigUpdate.URL
                    = <<"https://autoconfig.">> \o ascii \o <<"/mail/config-v1.1.xml">>
            /\ (/\ r.emailaddress = <<>>
                /\ r.Host \in {<<"autoconfig", ".", "example", ".", "org">>,
                               <<"example", ".", "org">>}) =>
                    doc.ClientConfigUpdate.URL
                        = <<"https://autoconfig.", "example", ".", "org",
                            "/mail/config-v1.1.xml">>

\* A document for a request on the well-known path of host example.org,
\* without address.
C10_Witness ==
    /\ Written("autoconfig")
    /\ r.emailaddress = <<>>
    /\ r.Host = <<"example", ".", "org">>
    /\ r.Path = <<"/.well-known/autoconfig/mail/config-v1.1.xml">>
    /\ Len(Document("autoconfig").EmailProvider.IncomingServers) = 2

-----------------------------------------------------------------------------
\* C11: mobileconfigQRCodeHandle checks in a fixed order: a method other than
\* GET yields 405, also for a path without the suffix; otherwise a path not
\* ending in ".qrcode.png" yields 404; otherwise the encoded URL has scheme
\* "https" on a TLS connection and "http" otherwise, the request's host, the
\* path without exactly one trailing ".qrcode.png" and the query unchanged; an
\* encode failure yields 500 and no image bytes, success yields the PNG.
C11_QRCodeChecks ==
    (r.handler = "qrcode" /\ Returned) =>
        LET suffixed == Len(r.Path) >= 1 /\ r.Path[Len(r.Path)] = ".qrcode.png"
            url == (IF r.TLS THEN <<"https">> ELSE <<"http">>) \o <<"://">> \o r.Host
                   \o SubSeq(r.Path, 1, Len(r.Path) - 1)
                   \o (IF r.RawQuery = <<>> THEN <<>> ELSE <<"?">> \o r.RawQuery)
            fits == \A i \in 1..Len(r.RawQuery) : r.RawQuery[i] # TooLong
        IN  CASE r.Method # "GET" ->
                    /\ w.code = StatusMethodNotAllowed
                    /\ ErrorOnly
                    /\ calls = <<>>
              [] r.Method = "GET" /\ ~suffixed ->
                    /\ w.code = StatusNotFound
                    /\ ErrorOnly
                    /\ calls = <<>>
              [] r.Method = "GET" /\ suffixed /\ ~fits ->
                    /\ w.code = StatusInternalServerError
                    /\ ErrorOnly
                    /\ calls = <<"qr.Encode">>
              [] OTHER ->
                    /\ w.code = StatusOK
                    /\ calls = <<"qr.Encode">>
                    /\ w.contentType = <<"image/png">>
                    /\ Len(w.body) = 1
                    /\ w.body[1].kind = "png"
                    /\ w.body[1].doc = [kind |-> "qrcode", text |-> url]

\* A code for a path ending in the suffix twice, with a query, requested over
\* a connection without TLS.
C11_Witness ==
    /\ r.handler = "qrcode"
    /\ Returned
    /\ r.Method = "GET"
    /\ ~r.TLS
    /\ r.Path = <<"/mobileconfig", ".qrcode.png", ".qrcode.png">>
    /\ r.RawQuery = <<"addresses=user%40example.org">>
    /\ w.code = StatusOK
    /\ w.body[1].doc.text = <<"http", "://", "example", ".", "org", ":", "8443",
                              "/mobileconfig", ".qrcode.png", "?",
                              "addresses=user%40example.org">>

-----------------------------------------------------------------------------
\* C12: in mobileconfigHandle a method other than GET yields 405 before any
\* parameter is read; an empty addresses parameter yields 400 without the
\* profile builder being called; a builder error yields 400; on success the
\* response carries the profile with Content-Disposition file name
\* "email-account-" + s + ".mobileconfig", s being the first comma-separated
\* address with every "." replaced by "-" and every "@" by "-at-"; no error
\* response has a Content-Disposition header.
C12_MobileconfigChecks ==
    (r.handler = "mobileconfig" /\ Returned) =>
        LET comma == Index(r.addresses, ",")
            first == IF comma = 0 THEN r.addresses ELSE SubSeq(r.addresses, 1, comma - 1)
            sanitized == [i \in 1..Len(first) |->
                            CASE first[i] = "." -> "-"
                              [] first[i] = "@" -> "-at-"
                              [] OTHER -> first[i]]
            built == \E i \in 1..Len(calls) : calls[i] = "MobileConfig"
        IN  /\ w.code >= 400 => (ErrorOnly /\ w.contentDisposition = <<>>)
            /\ CASE r.Method # "GET" ->
                        /\ w.code = StatusMethodNotAllowed
                        /\ calls = <<>>
                  [] r.Method = "GET" /\ r.addresses = <<>> ->
                        /\ w.code = StatusBadRequest
                        /\ ~built
                  [] OTHER ->
                        /\ calls = <<"FormValue", "FormValue", "MobileConfig">>
                        /\ w.code \in {StatusBadRequest, StatusOK}
                        /\ w.code = StatusOK =>
                            /\ Len(w.body) = 1
                            /\ w.body[1].kind = "bytes"
                            /\ w.body[1].doc.kind = "profile"
                            /\ w.contentDisposition =
                                    <<"attachment; filename=\"", "email-account-">>
                                    \o sanitized \o <<".mobileconfig", "\"">>

\* A profile for two addresses, named after the first.
C12_Witness ==
    /\ r.handler = "mobileconfig"
    /\ Returned
    /\ r.addresses = <<"user", "@", "example", ".", "org", ",",
                       "user", "@", "u-bucher", ".", "org">>
    /\ w.code = StatusOK
    /\ w.contentDisposition = <<"attachment; filename=\"", "email-account-", "user", "-at-",
                                "example", "-", "org", ".mobileconfig", "\"">>

====
